---- MODULE Spec2Model ----
(***************************************************************************)
(* Model of the Dexcom Share client of dexcord (src/src/dexcom.rs): the    *)
(* session manager `Api`, its on-disk cache `ApiCache`, and the three      *)
(* request/response exchanges with the remote service.                     *)
(*                                                                         *)
(* One action is one whole call of a public operation (Api::new,           *)
(* Api::get_latest_glucose, the drop of the manager).  The remote service  *)
(* and the disk are the environment: every response and every disk outcome *)
(* is an input of the action, drawn from the small sets below.             *)
(*                                                                         *)
(* SpecMain follows the polling program of src/src/main.rs (Api::new, then *)
(* the loop around get_latest_glucose and set_status); SpecStatus applies  *)
(* format_status to every value up to MaxValue.                            *)
(***************************************************************************)
EXTENDS Integers, Sequences, FiniteSets, TLC

\* ------------------------------------------------------------------ bounds
\* Longest JSON array the remote service answers the readings query with.
MaxReadings == 2
\* Most readings queries the polling loop is followed through without a sleep.
MaxPolls == 3
\* Largest glucose value format_status is applied to.
MaxValue == 320

\* --------------------------------------------------------------- constants
APPLICATION_ID == "d89443d2-327c-4a6f-89e5-496bbb0317db"
ACCOUNT_ID_URL == "AuthenticatePublisherAccount"
SESSION_ID_URL == "LoginPublisherAccountById"
MEASURE_GLUCOSE_URL == "ReadPublisherLatestGlucoseValues"
DEFAULT_MINUTES == 60
DEFAULT_MAX_COUNT == 1

\* ------------------------------------------------------------ input domains
Usernames == {"", "u1", "u2"}
Passwords == {"", "pw"}
\* identifiers the remote service hands out
AccountIds == {"a1", "a2"}
SessionIds == {"s1", "s2"}
\* strings the remote service may put in the Code field of an error object
Codes == {"AccountPasswordInvalid", "MaxAuthenticationAttemptsReached",
          "SessionIdNotFound", "SessionNotValid", "SessionInvalid",
          "MaxRetriesReached", "ArgUsername", "Bogus"}
\* how the disk behaves during one call: every write succeeds, File::create
\* fails (file untouched), or the file is created (truncated) and the write
\* into it fails
DiskModes == {"ok", "nocreate", "partial"}

\* --------------------------------------------------------- response bodies
\* A response is the body text classified by its JSON shape, or a failed
\* exchange (send()/text() returned Err).
StrBody(s) == [k |-> "string", s |-> s]
ArrBody(items) == [k |-> "array", items |-> items]
\* a JSON object with a Code string; full = Message, SubCode and TypeName
\* are all present as strings
ObjBody(code, full) == [k |-> "object", Code |-> code, full |-> full]
TextBody(t) == [k |-> "text", t |-> t]
Failed == [k |-> "failed"]

\* elements of a readings array as they are on the wire
ReadingJson(v) == [WT |-> "wt", ST |-> "st", DT |-> "dt", Value |-> v, Trend |-> "Flat"]
WireValues == {-1, 45, 150}
WireElems == {ReadingJson(v) : v \in WireValues}

RECURSIVE SeqsUpTo(_, _)
SeqsUpTo(S, n) ==
    IF n = 0 THEN {<<>>}
    ELSE LET shorter == SeqsUpTo(S, n - 1)
         IN  shorter \cup {Append(q, e) : q \in {x \in shorter : Len(x) = n - 1}, e \in S}

ObjBodies == {ObjBody(c, TRUE) : c \in Codes} \cup {ObjBody("SessionNotValid", FALSE)}
TextBodies == {TextBody("oops"), TextBody("<html>")}
ArrBodies == {ArrBody(q) : q \in SeqsUpTo(WireElems, MaxReadings)}

\* what the remote service may answer to each of the three requests
AccountResponses == {StrBody(a) : a \in AccountIds} \cup ObjBodies \cup TextBodies
                        \cup {ArrBody(<<>>), Failed}
SessionResponses == {StrBody(s) : s \in SessionIds} \cup ObjBodies \cup TextBodies
                        \cup {ArrBody(<<>>), Failed}
GlucoseResponses == ArrBodies \cup ObjBodies \cup TextBodies
                        \cup {StrBody("s1"), Failed}

\* ------------------------------------------------------------------ errors
Err(tag) == [tag |-> tag]
Unknown(body) == [tag |-> "Unknown", body |-> body]
Transport == [tag |-> "Transport"]

\* results of a call
Ok(v) == [kind |-> "Ok", v |-> v]
Fail(e) == [kind |-> "Err", e |-> e]
Panic == [kind |-> "Panic"]
None == [some |-> FALSE]
Some(m) == [some |-> TRUE, m |-> m]

\* serde's variant table of enum Error: the renamed variants answer to their
\* wire name only, the others to their Rust name; Unknown(String) is not a
\* unit variant and no Code string selects it.
ErrorFromCode(code) ==
    CASE code = "AccountPasswordInvalid" -> "InvalidPassword"
      [] code = "MaxAuthenticationAttemptsReached" -> "MaxAuthenticationAttemptsReached"
      [] code = "SessionIdNotFound" -> "SessionNotFound"
      [] code = "SessionNotValid" -> "SessionInvalid"
      [] code = "ArgUsername" -> "ArgUsername"
      [] code = "ArgPassword" -> "ArgPassword"
      [] code = "MaxRetriesReached" -> "MaxRetriesReached"
      [] OTHER -> "NoVariant"

\* serde_json::from_str::<ErrorResponse>(&body)
ParseErrorResponse(body) ==
    IF body.k = "object" /\ body.full /\ ErrorFromCode(body.Code) # "NoVariant"
    THEN [ok |-> TRUE, code |-> Err(ErrorFromCode(body.Code))]
    ELSE [ok |-> FALSE]

\* ------------------------------------------------------------------- cache
ApiCache(username, account_id, session_id) ==
    [username |-> username, account_id |-> account_id, session_id |-> session_id]
ApiCacheDefault == ApiCache("", "", "")

Absent == [k |-> "absent"]
Corrupt == [k |-> "corrupt"]
\* api_cache.json holding the serialized record
FileOf(cache) == [k |-> "json", username |-> cache.username,
                  account_id |-> cache.account_id, session_id |-> cache.session_id]

\* ApiCache::save under disk mode wr: the file afterwards, and whether the
\* call returned (ok) or panicked on an unwrap
save(cache, f, wr) ==
    CASE wr = "ok" -> [ok |-> TRUE, file |-> FileOf(cache)]
      [] wr = "nocreate" -> [ok |-> FALSE, file |-> f]
      [] OTHER -> [ok |-> FALSE, file |-> Corrupt]

\* try_load_cache with the username comparison inverted
try_load_cache_Inverted(f, username) ==
    IF f.k = "absent" THEN [panic |-> FALSE, loaded |-> FALSE, dropped |-> FALSE]
    ELSE IF f.k = "corrupt" THEN [panic |-> TRUE, loaded |-> FALSE, dropped |-> FALSE]
    ELSE LET cached_s == ApiCache(f.username, f.account_id, f.session_id)
         IN  IF cached_s.username = username
             THEN [panic |-> FALSE, loaded |-> FALSE, dropped |-> TRUE, cache |-> cached_s]
             ELSE [panic |-> FALSE, loaded |-> TRUE, dropped |-> FALSE, cache |-> cached_s]

\* ApiCache::try_load_cache.  loaded: Some(cache) is returned; dropped: the
\* deserialized record went out of scope inside the function, which runs
\* Drop for ApiCache (a save of that record); panic: from_reader's unwrap.
try_load_cache(f, username) ==
    IF f.k = "absent" THEN [panic |-> FALSE, loaded |-> FALSE, dropped |-> FALSE]
    ELSE IF f.k = "corrupt" THEN [panic |-> TRUE, loaded |-> FALSE, dropped |-> FALSE]
    ELSE LET cached_s == ApiCache(f.username, f.account_id, f.session_id)
         IN  IF cached_s.username # username
             THEN [panic |-> FALSE, loaded |-> FALSE, dropped |-> TRUE, cache |-> cached_s]
             ELSE [panic |-> FALSE, loaded |-> TRUE, dropped |-> FALSE, cache |-> cached_s]

\* ----------------------------------------------------------------- manager
NoApi == [alive |-> FALSE]
Api(password, cache) == [alive |-> TRUE, password |-> password, cache |-> cache]

\* the tail of get_account_id / get_session_id: the exchange's outcome
ParseIdResponse(resp) ==
    IF resp.k = "failed" THEN Fail(Transport)
    ELSE IF resp.k = "string" THEN Ok(resp.s)
    ELSE LET e == ParseErrorResponse(resp)
         IN  IF e.ok THEN Fail(e.code) ELSE Fail(Unknown(resp))

\* Api::get_account_id: the request sent and the result
get_account_id(s, resp) ==
    [req |-> [url |-> ACCOUNT_ID_URL, id |-> s.cache.username, password |-> s.password,
              applicationId |-> APPLICATION_ID, resp |-> resp],
     res |-> ParseIdResponse(resp)]

\* Api::get_session_id: the request sent and the result
get_session_id(s, resp) ==
    [req |-> [url |-> SESSION_ID_URL, id |-> s.cache.account_id, password |-> s.password,
              applicationId |-> APPLICATION_ID, resp |-> resp],
     res |-> ParseIdResponse(resp)]

\* the answers to a call's session-id request: drawn only when the call
\* sends that request (sent), a placeholder that is never read otherwise
SecondResponses(sent) == IF sent THEN SessionResponses ELSE {Failed}

\* the disk outcomes of a call: drawn only when the call saves the cache
\* (saves), a placeholder that is never read otherwise
DiskModesFor(saves) == IF saves THEN DiskModes ELSE {"ok"}

\* -------------------------------------------------------------------- state
VARIABLES
    proc,      \* "start": no manager; "running": a manager exists; "crashed": the process panicked
    api,       \* the manager (struct Api), or NoApi
    file,      \* api_cache.json
    op,        \* the last call and its inputs
    result,    \* what the last call returned
    netLog,    \* the requests the last call sent, in order, each with its response
    writes,    \* the records the last call handed to ApiCache::save, in order
    pre,       \* the manager before the last call
    preFile,   \* the file before the last call
    prevRenewal \* whether the call before the last one renewed the session, and from which id to which

\* the polling program (src/src/main.rs)
VARIABLES
    mpc,              \* where main is: "boot" before Api::new, "loop" in the polling loop, "dead" after a panic
    loop_has_started, \* main's flag of that name
    sinceSleep,       \* readings queries sent since the last sleep ended (since the start before the first sleep)
    iter,             \* the last loop iteration: whether it slept, and the status strings it passed to set_status
    presence,         \* the custom status of the Discord account
    fmt               \* a call of format_status: its argument and, once called, its result

mainVars == <<mpc, loop_has_started, sinceSleep, iter, presence, fmt>>

vars == <<proc, api, file, op, result, netLog, writes, pre, preFile, prevRenewal,
          mpc, loop_has_started, sinceSleep, iter, presence, fmt>>

NoIteration == [ran |-> FALSE]
NoPresence == [text |-> "(not set by this program)"]
NoFormat == [called |-> FALSE, value |-> 0]

\* the renewal the last call made, read off its requests and responses
NoRenewal == [renewed |-> FALSE]
RenewalOf ==
    IF /\ op.name = "get_latest_glucose"
       /\ result.kind # "Panic"
       /\ Len(netLog) = 2
       /\ netLog[2].resp.k = "string"
    THEN [renewed |-> TRUE, expired |-> netLog[1].id, id |-> netLog[2].resp.s]
    ELSE NoRenewal

InitCore ==
    /\ proc = "start"
    /\ api = NoApi
    /\ file = Absent
    /\ op = [name |-> "init"]
    /\ result = [kind |-> "None"]
    /\ netLog = <<>>
    /\ writes = <<>>
    /\ pre = NoApi
    /\ preFile = Absent
    /\ prevRenewal = NoRenewal
    /\ mpc = "boot"
    /\ loop_has_started = FALSE
    /\ sinceSleep = 0
    /\ iter = NoIteration
    /\ presence = NoPresence

Init == InitCore /\ fmt = NoFormat

\* outcome of a call: what it returned, the manager and the file afterwards,
\* the requests it sent and the records it tried to write
Outcome(res, a, f, net, wlog) ==
    [result |-> res, api |-> a, file |-> f, netLog |-> net, writes |-> wlog]

\* a save that closes a call: the call returns res with manager a when the
\* write succeeds and the process panics when it does not
SaveThen(cache, f, wr, res, a, net, wlog) ==
    LET w == save(cache, f, wr)
    IN  IF w.ok THEN Outcome(res, a, w.file, net, Append(wlog, cache))
        ELSE Outcome(Panic, NoApi, w.file, net, Append(wlog, cache))

\* the argument checks with the password checked first
CheckArgs_PasswordFirst(username, password) ==
    IF password = "" THEN Fail(Err("ArgPassword"))
    ELSE IF username = "" THEN Fail(Err("ArgUsername"))
    ELSE Ok("args")

\* the argument checks of Api::new
CheckArgs(username, password) ==
    IF username = "" THEN Fail(Err("ArgUsername"))
    ELSE IF password = "" THEN Fail(Err("ArgPassword"))
    ELSE Ok("args")

\* the refresh sending the session-id derivation with the account id the
\* manager held before the account-id derivation
Refresh_StaleAccount(s, f, wr, r1, r2, wlog) ==
    LET a == get_account_id(s, r1)
    IN  IF a.res.kind # "Ok"
        THEN SaveThen(s.cache, f, wr, a.res, NoApi, <<a.req>>, wlog)
        ELSE LET s1 == Api(s.password, ApiCache(s.cache.username, a.res.v, s.cache.session_id))
                 b == get_session_id(s, r2)
             IN  IF b.res.kind # "Ok"
                 THEN SaveThen(s1.cache, f, wr, b.res, NoApi, <<a.req, b.req>>, wlog)
                 ELSE LET s2 == Api(s1.password,
                                    ApiCache(s1.cache.username, s1.cache.account_id, b.res.v))
                      IN  SaveThen(s2.cache, f, wr, Ok("manager"), s2, <<a.req, b.req>>, wlog)

\* the refresh going on to the session-id derivation after a failed
\* account-id derivation, and returning the manager when that one succeeds
Refresh_IgnoresAccountError(s, f, wr, r1, r2, wlog) ==
    LET a == get_account_id(s, r1)
        s1 == Api(s.password,
                  ApiCache(s.cache.username,
                           IF a.res.kind = "Ok" THEN a.res.v ELSE s.cache.account_id,
                           s.cache.session_id))
        b == get_session_id(s1, r2)
    IN  IF b.res.kind # "Ok"
        THEN SaveThen(s1.cache, f, wr, b.res, NoApi, <<a.req, b.req>>, wlog)
        ELSE LET s2 == Api(s1.password,
                           ApiCache(s1.cache.username, s1.cache.account_id, b.res.v))
             IN  SaveThen(s2.cache, f, wr, Ok("manager"), s2, <<a.req, b.req>>, wlog)

\* Api::new from the refresh on: s is the manager under construction, f the
\* file and wlog the writes so far.  An early return drops s, and dropping
\* its cache saves it.
Refresh(s, f, wr, r1, r2, wlog) ==
    LET a == get_account_id(s, r1)
    IN  IF a.res.kind # "Ok"
        THEN SaveThen(s.cache, f, wr, a.res, NoApi, <<a.req>>, wlog)
        ELSE LET s1 == Api(s.password, ApiCache(s.cache.username, a.res.v, s.cache.session_id))
                 b == get_session_id(s1, r2)
             IN  IF b.res.kind # "Ok"
                 THEN SaveThen(s1.cache, f, wr, b.res, NoApi, <<a.req, b.req>>, wlog)
                 ELSE LET s2 == Api(s1.password,
                                    ApiCache(s1.cache.username, s1.cache.account_id, b.res.v))
                      IN  SaveThen(s2.cache, f, wr, Ok("manager"), s2, <<a.req, b.req>>, wlog)

\* Api::new
Api_new(f, username, password, wr, r1, r2) ==
    LET chk == CheckArgs(username, password)
    IN  IF chk.kind # "Ok" THEN Outcome(chk, NoApi, f, <<>>, <<>>)
        ELSE LET l == try_load_cache(f, username)
             IN  IF l.panic THEN Outcome(Panic, NoApi, f, <<>>, <<>>)
                 ELSE IF l.loaded
                 THEN Outcome(Ok("manager"),
                              Api(password, ApiCache(username, l.cache.account_id,
                                                     l.cache.session_id)),
                              f, <<>>, <<>>)
                 ELSE LET s == Api(password, ApiCache(username, ApiCacheDefault.account_id,
                                                      ApiCacheDefault.session_id))
                      IN  IF l.dropped
                          THEN LET w == save(l.cache, f, wr)
                               IN  IF w.ok
                                   THEN Refresh(s, w.file, wr, r1, r2, <<l.cache>>)
                                   ELSE Outcome(Panic, NoApi, w.file, <<>>, <<l.cache>>)
                          ELSE Refresh(s, f, wr, r1, r2, <<>>)

Apply(o, opRec) ==
    /\ api' = o.api
    /\ file' = o.file
    /\ result' = o.result
    /\ netLog' = o.netLog
    /\ writes' = o.writes
    /\ proc' = IF o.result.kind = "Panic" THEN "crashed"
               ELSE IF o.api.alive THEN "running" ELSE "start"
    /\ op' = opRec
    /\ pre' = api
    /\ preFile' = file
    /\ prevRenewal' = RenewalOf
    /\ UNCHANGED mainVars

New ==
    /\ proc = "start"
    /\ \E username \in Usernames, password \in Passwords, wr \in DiskModes,
          r1 \in AccountResponses :
        \E r2 \in SecondResponses(ParseIdResponse(r1).kind = "Ok") :
        \E o \in {Api_new(file, username, password, wr, r1, r2)} :
          Apply(o, [name |-> "new", username |-> username, password |-> password])

\* a wire element deserializes into GlucoseMeasurement when its Value fits
\* u32 (the wire values used here never exceed u32::MAX)
IsMeasurementJson(e) == e.Value >= 0

\* the serde renames of GlucoseMeasurement: WT, ST, DT, Value, Trend
MeasurementOf(e) ==
    [wt |-> e.WT, st |-> e.ST, dt |-> e.DT, value |-> e.Value, trend |-> e.Trend]

\* serde_json::from_str::<Vec<GlucoseMeasurement>>(&body)
ParseReadings(body) ==
    IF body.k = "array" /\ \A i \in 1..Len(body.items) : IsMeasurementJson(body.items[i])
    THEN [ok |-> TRUE, response |-> [i \in 1..Len(body.items) |-> MeasurementOf(body.items[i])]]
    ELSE [ok |-> FALSE]

\* the readings branch taking the last element (pop) instead of the first
FirstOf_Last(response) ==
    IF Len(response) = 0 THEN Ok(None) ELSE Ok(Some(response[Len(response)]))

\* the readings branch of get_latest_glucose: None, or response.remove(0)
FirstOf(response) ==
    IF Len(response) = 0 THEN Ok(None) ELSE Ok(Some(Head(response)))

\* the renewal without the save
Renew_NoSave(s, f, wr, e, req, r2) ==
    LET b == get_session_id(s, r2)
    IN  IF b.res.kind # "Ok"
        THEN Outcome(b.res, s, f, <<req, b.req>>, <<>>)
        ELSE Outcome(Fail(e),
                     Api(s.password, ApiCache(s.cache.username, s.cache.account_id, b.res.v)),
                     f, <<req, b.req>>, <<>>)

\* the renewal saving the new session id but leaving the manager's own
\* session id as it was
Renew_KeepsOldId(s, f, wr, e, req, r2) ==
    LET b == get_session_id(s, r2)
    IN  IF b.res.kind # "Ok"
        THEN Outcome(b.res, s, f, <<req, b.req>>, <<>>)
        ELSE LET s1 == Api(s.password,
                           ApiCache(s.cache.username, s.cache.account_id, b.res.v))
                 w == save(s1.cache, f, wr)
             IN  IF w.ok
                 THEN Outcome(Fail(e), s, w.file, <<req, b.req>>, <<s1.cache>>)
                 ELSE Outcome(Panic, NoApi, w.file, <<req, b.req>>, <<s1.cache>>)

\* the renewal followed by a second readings query with the new session id
Renew_QueriesAgain(s, f, wr, e, req, r2) ==
    LET b == get_session_id(s, r2)
    IN  IF b.res.kind # "Ok"
        THEN Outcome(b.res, s, f, <<req, b.req>>, <<>>)
        ELSE LET s1 == Api(s.password,
                           ApiCache(s.cache.username, s.cache.account_id, b.res.v))
                 w == save(s1.cache, f, wr)
                 again == [req EXCEPT !.id = s1.cache.session_id]
             IN  IF w.ok
                 THEN Outcome(Fail(e), s1, w.file, <<req, b.req, again>>, <<s1.cache>>)
                 ELSE Outcome(Panic, NoApi, w.file, <<req, b.req>>, <<s1.cache>>)

\* the session-invalid branch of get_latest_glucose: renew the session id
\* for the next request, save the cache, report the error e
Renew(s, f, wr, e, req, r2) ==
    LET b == get_session_id(s, r2)
    IN  IF b.res.kind # "Ok"
        THEN Outcome(b.res, s, f, <<req, b.req>>, <<>>)
        ELSE LET s1 == Api(s.password,
                           ApiCache(s.cache.username, s.cache.account_id, b.res.v))
                 w == save(s1.cache, f, wr)
             IN  IF w.ok
                 THEN Outcome(Fail(e), s1, w.file, <<req, b.req>>, <<s1.cache>>)
                 ELSE Outcome(Panic, NoApi, w.file, <<req, b.req>>, <<s1.cache>>)

\* get_latest_glucose renewing the session on every remote error
get_latest_glucose_RenewsOnAnyError(s, f, wr, r, r2) ==
    LET req == [url |-> MEASURE_GLUCOSE_URL, id |-> s.cache.session_id,
                minutes |-> DEFAULT_MINUTES, maxCount |-> DEFAULT_MAX_COUNT, resp |-> r]
    IN  IF r.k = "failed" THEN Outcome(Fail(Transport), s, f, <<req>>, <<>>)
        ELSE LET v == ParseReadings(r)
                 e == ParseErrorResponse(r)
             IN  IF v.ok THEN Outcome(FirstOf(v.response), s, f, <<req>>, <<>>)
                 ELSE IF e.ok THEN Renew(s, f, wr, e.code, req, r2)
                 ELSE Outcome(Fail(Unknown(r)), s, f, <<req>>, <<>>)

\* Api::get_latest_glucose
get_latest_glucose(s, f, wr, r, r2) ==
    LET req == [url |-> MEASURE_GLUCOSE_URL, id |-> s.cache.session_id,
                minutes |-> DEFAULT_MINUTES, maxCount |-> DEFAULT_MAX_COUNT, resp |-> r]
    IN  IF r.k = "failed" THEN Outcome(Fail(Transport), s, f, <<req>>, <<>>)
        ELSE LET v == ParseReadings(r)
                 e == ParseErrorResponse(r)
             IN  IF v.ok THEN Outcome(FirstOf(v.response), s, f, <<req>>, <<>>)
                 ELSE IF e.ok
                 THEN IF e.code = Err("SessionInvalid")
                      THEN Renew(s, f, wr, e.code, req, r2)
                      ELSE Outcome(Fail(e.code), s, f, <<req>>, <<>>)
                 ELSE Outcome(Fail(Unknown(r)), s, f, <<req>>, <<>>)

GetLatestGlucose ==
    /\ proc = "running"
    /\ \E wr \in DiskModes, r \in GlucoseResponses :
        \E r2 \in SecondResponses(ParseErrorResponse(r) = [ok |-> TRUE, code |-> Err("SessionInvalid")]) :
        \E o \in {get_latest_glucose(api, file, wr, r, r2)} :
              /\ api' = o.api
              /\ file' = o.file
              /\ result' = o.result
              /\ netLog' = o.netLog
              /\ writes' = o.writes
              /\ proc' = IF o.result.kind = "Panic" THEN "crashed" ELSE "running"
              /\ op' = [name |-> "get_latest_glucose"]
              /\ pre' = api
              /\ preFile' = file
              /\ prevRenewal' = RenewalOf
              /\ UNCHANGED mainVars

\* the manager goes out of scope: Drop for ApiCache saves the cache
Teardown ==
    /\ proc = "running"
    /\ \E wr \in DiskModes :
          LET w == save(api.cache, file, wr)
          IN  /\ api' = NoApi
              /\ file' = w.file
              /\ result' = IF w.ok THEN [kind |-> "Dropped"] ELSE Panic
              /\ netLog' = <<>>
              /\ writes' = <<api.cache>>
              /\ proc' = IF w.ok THEN "start" ELSE "crashed"
              /\ op' = [name |-> "drop"]
              /\ pre' = api
              /\ preFile' = file
              /\ prevRenewal' = RenewalOf
              /\ UNCHANGED mainVars

\* the program is started again after a panic
Restart ==
    /\ proc = "crashed"
    /\ proc' = "start"
    /\ api' = NoApi
    /\ op' = [name |-> "restart"]
    /\ result' = [kind |-> "None"]
    /\ netLog' = <<>>
    /\ writes' = <<>>
    /\ pre' = NoApi
    /\ preFile' = file
    /\ prevRenewal' = NoRenewal
    /\ UNCHANGED file
    /\ UNCHANGED mainVars

Next == New \/ GetLatestGlucose \/ Teardown \/ Restart

Spec == Init /\ [][Next]_vars

\* ------------------------------------------------------- the polling program
\* the string "<text> (<value> mg/dL)" that format! builds
Status(text, value) == [text |-> text, value |-> value]
\* the fixed string main uses when the query failed
FallbackStatus == [text |-> "Tell me to change my cgm"]

\* format_status with the fourth range closed at 300
format_status_HighInclusive(value) ==
    IF 40 <= value /\ value < 60
    THEN Status("I'm in sugar withdrawls, send help", value)
    ELSE IF 60 <= value /\ value < 80
    THEN Status("Tell me to eat something, I'm a little low", value)
    ELSE IF 80 <= value /\ value < 200
    THEN Status("We chillin", value)
    ELSE IF 200 <= value /\ value <= 300
    THEN Status("I'm a little high, tell me to do some pushups", value)
    ELSE Status("I'm currently ODing on sugar, send help", value)

\* format_status
format_status(value) ==
    IF 40 <= value /\ value < 60
    THEN Status("I'm in sugar withdrawls, send help", value)
    ELSE IF 60 <= value /\ value < 80
    THEN Status("Tell me to eat something, I'm a little low", value)
    ELSE IF 80 <= value /\ value < 200
    THEN Status("We chillin", value)
    ELSE IF 200 <= value /\ value < 300
    THEN Status("I'm a little high, tell me to do some pushups", value)
    ELSE Status("I'm currently ODing on sugar, send help", value)

\* how the presence service answers the PATCH: a success status, another
\* status, or the exchange fails
DiscordResponses == {"success", "rejected", "failed"}

\* discord::Api::set_status: Ok only on a success status
set_status(text, d) ==
    IF d = "failed" THEN Fail(Transport)
    ELSE IF d = "success" THEN Ok("unit")
    ELSE Fail(Unknown(d))

\* the match in main's loop with the session-invalid arm sending the
\* fallback status like every other error
poll_match_NoSessionArm(res) ==
    IF res.kind = "Ok"
    THEN IF ~res.v.some
         THEN [updates |-> <<>>, started |-> TRUE]
         ELSE [updates |-> <<format_status(res.v.m.value)>>, started |-> TRUE]
    ELSE [updates |-> <<FallbackStatus>>, started |-> TRUE]

\* the match in main's loop on the result of get_latest_glucose: the status
\* strings that reach set_status in this iteration, and loop_has_started
\* at the end of it
poll_match(res) ==
    IF res.kind = "Ok"
    THEN IF ~res.v.some
         THEN [updates |-> <<>>, started |-> TRUE]
         ELSE [updates |-> <<format_status(res.v.m.value)>>, started |-> TRUE]
    ELSE IF res.e = Err("SessionInvalid")
    THEN [updates |-> <<>>, started |-> FALSE]
    ELSE [updates |-> <<FallbackStatus>>, started |-> TRUE]

\* main up to the loop: dexcom::Api::new(..).await.unwrap() with the
\* credentials of the config file
MainBoot ==
    /\ mpc = "boot"
    /\ proc = "start"
    /\ \E username \in Usernames, password \in Passwords, wr \in DiskModes,
          r1 \in AccountResponses :
        \E r2 \in SecondResponses(ParseIdResponse(r1).kind = "Ok") :
        \E o \in {Api_new(file, username, password, wr, r1, r2)} :
              /\ api' = o.api
              /\ file' = o.file
              /\ result' = o.result
              /\ netLog' = o.netLog
              /\ writes' = o.writes
              /\ proc' = IF o.result.kind = "Ok" THEN "running" ELSE "crashed"
              /\ op' = [name |-> "new", username |-> username, password |-> password]
              /\ pre' = api
              /\ preFile' = file
              /\ prevRenewal' = RenewalOf
              /\ mpc' = IF o.result.kind = "Ok" THEN "loop" ELSE "dead"
              /\ UNCHANGED <<loop_has_started, sinceSleep, iter, presence, fmt>>

\* one iteration of main's loop: the sleep unless the flag is down, the
\* readings query, the match, and set_status when a status string came out
MainIterate ==
    /\ mpc = "loop"
    /\ LET slept == loop_has_started
           n == IF slept THEN 1 ELSE sinceSleep + 1
       IN  /\ n <= MaxPolls
           /\ \E r \in GlucoseResponses :
               \E r2 \in SecondResponses(ParseErrorResponse(r)
                                            = [ok |-> TRUE, code |-> Err("SessionInvalid")]) :
               \E wr \in DiskModesFor(r2.k = "string") :
               \E o \in {get_latest_glucose(api, file, wr, r, r2)} :
               \E panicked \in {o.result.kind = "Panic"} :
               \E m \in {IF panicked THEN [updates |-> <<>>, started |-> TRUE]
                          ELSE poll_match(o.result)} :
                     \E d \in (IF m.updates = <<>> THEN {"success"} ELSE DiscordResponses) :
                       /\ api' = o.api
                       /\ file' = o.file
                       /\ result' = o.result
                       /\ netLog' = o.netLog
                       /\ writes' = o.writes
                       /\ proc' = IF panicked THEN "crashed" ELSE "running"
                       /\ op' = [name |-> "get_latest_glucose"]
                       /\ pre' = api
                       /\ preFile' = file
                       /\ prevRenewal' = RenewalOf
                       /\ mpc' = IF panicked THEN "dead" ELSE "loop"
                       /\ loop_has_started' = m.started
                       /\ sinceSleep' = n
                       /\ iter' = [ran |-> TRUE, slept |-> slept, updates |-> m.updates,
                                   before |-> presence]
                       /\ presence' = IF m.updates # <<>> /\ set_status(m.updates[1], d).kind = "Ok"
                                      THEN m.updates[1] ELSE presence
                       /\ UNCHANGED fmt

NextMain == MainBoot \/ MainIterate

SpecMain == Init /\ [][NextMain]_vars

\* ------------------------------------------------- format_status on its own
InitStatus == InitCore /\ fmt \in {[called |-> FALSE, value |-> v] : v \in 0..MaxValue}

FormatStatus ==
    /\ ~fmt.called
    /\ fmt' = [called |-> TRUE, value |-> fmt.value, status |-> format_status(fmt.value)]
    /\ UNCHANGED <<proc, api, file, op, result, netLog, writes, pre, preFile, prevRenewal,
                   mpc, loop_has_started, sinceSleep, iter, presence>>

NextStatus == FormatStatus

SpecStatus == InitStatus /\ [][NextStatus]_vars

\* ------------------------------------------------------------ observations
IsNew == op.name = "new"
IsGlucose == op.name = "get_latest_glucose"
\* the error object {"Code":"SessionNotValid","Message":..,"SubCode":..,"TypeName":..}
SessionNotValidBody == ObjBody("SessionNotValid", TRUE)
\* the last call was a readings query answered with the session-invalid error object
SawSessionInvalid == IsGlucose /\ netLog[1].resp = SessionNotValidBody
SessionCalls == {i \in 1..Len(netLog) : netLog[i].url = SESSION_ID_URL}
AccountCalls == {i \in 1..Len(netLog) : netLog[i].url = ACCOUNT_ID_URL}
ReadingCalls == {i \in 1..Len(netLog) : netLog[i].url = MEASURE_GLUCOSE_URL}

\* C1 (as stated): every readings response that is the SessionNotValid error
\* object makes get_latest_glucose send exactly one session-id derivation
\* (with the existing account id, username and account id untouched), write
\* the cache exactly once with the renewed session id, and return an error,
\* not a reading.
C1_AsStated ==
    SawSessionInvalid =>
        /\ Cardinality(SessionCalls) = 1 /\ AccountCalls = {}
        /\ netLog[2].id = pre.cache.account_id
        /\ Len(writes) = 1
        /\ writes[1].username = pre.cache.username
        /\ writes[1].account_id = pre.cache.account_id
        /\ netLog[2].resp.k = "string" /\ writes[1].session_id = netLog[2].resp.s
        /\ result.kind # "Ok"

\* C1 (amended): on the SessionNotValid error object get_latest_glucose sends
\* exactly one session-id derivation with the existing account id and
\* password; when that derivation succeeds it writes the cache exactly once,
\* with the renewed session id and the old username and account id; when the
\* derivation fails it writes nothing and leaves the manager as it was; in
\* no case does it return a reading.
C1_Renewal ==
    SawSessionInvalid =>
        /\ Cardinality(SessionCalls) = 1 /\ AccountCalls = {} /\ Len(netLog) = 2
        /\ netLog[2].id = pre.cache.account_id
        /\ netLog[2].password = pre.password
        /\ IF netLog[2].resp.k = "string"
           THEN /\ writes = <<ApiCache(pre.cache.username, pre.cache.account_id,
                                       netLog[2].resp.s)>>
                /\ api.alive => api.cache = writes[1]
           ELSE /\ writes = <<>>
                /\ api = pre
                /\ file = preFile
        /\ result.kind # "Ok"

C1_Witness ==
    /\ SawSessionInvalid
    /\ netLog[2].resp.k = "string"
    /\ netLog[2].resp.s # pre.cache.session_id
    /\ result.kind = "Err"
    /\ file = FileOf(api.cache)

\* C2: whenever the readings response is the session-invalid error, the
\* error get_latest_glucose returns is that session-invalid error, whatever
\* the renewal exchange answered.
C2_OriginalErrorReturned ==
    (SawSessionInvalid /\ result.kind = "Err") => result.e = Err("SessionInvalid")

\* C3: with a persisted record whose username is the requested one,
\* construction sends no request, and the manager it returns carries the
\* record's username, account id and session id.
C3_MatchingCache ==
    (IsNew /\ preFile.k = "json" /\ preFile.username = op.username) =>
        /\ netLog = <<>>
        /\ writes = <<>>
        /\ file = preFile
        /\ op.password # "" => result.kind = "Ok"
        /\ result.kind = "Ok" =>
              /\ api.alive
              /\ api.cache.username = preFile.username
              /\ api.cache.account_id = preFile.account_id
              /\ api.cache.session_id = preFile.session_id

C3_Witness ==
    /\ IsNew /\ preFile.k = "json" /\ preFile.username = op.username
    /\ result.kind = "Ok"
    /\ api.cache.session_id \in SessionIds

\* the cache does not serve the request: no file, or a record of another user
NoUsableCache ==
    /\ IsNew /\ op.username # "" /\ op.password # ""
    /\ preFile.k = "absent" \/ (preFile.k = "json" /\ preFile.username # op.username)

\* C4: with no record or a record of another username, construction sends
\* the account-id derivation (username and password) first and then the
\* session-id derivation carrying the account id just derived, two requests
\* in all, uses no cached identifier, and on success has persisted
\* {requested username, new account id, new session id} when it returns.
C4_FullDerivation ==
    NoUsableCache =>
        /\ Len(netLog) <= 2
        /\ result.kind # "Panic" => Len(netLog) >= 1
        /\ Len(netLog) >= 1 =>
              /\ netLog[1].url = ACCOUNT_ID_URL
              /\ netLog[1].id = op.username
              /\ netLog[1].password = op.password
              /\ netLog[1].resp.k = "string" => Len(netLog) = 2
        /\ Len(netLog) = 2 =>
              /\ netLog[1].resp.k = "string"
              /\ netLog[2].url = SESSION_ID_URL
              /\ netLog[2].id = netLog[1].resp.s
              /\ netLog[2].password = op.password
        /\ result.kind = "Ok" =>
              /\ Len(netLog) = 2
              /\ netLog[2].resp.k = "string"
              /\ api.alive
              /\ api.cache = ApiCache(op.username, netLog[1].resp.s, netLog[2].resp.s)
              /\ file = FileOf(api.cache)
              /\ writes[Len(writes)] = api.cache

C4_Witness ==
    /\ NoUsableCache
    /\ preFile.k = "json"
    /\ preFile.account_id \in AccountIds
    /\ result.kind = "Ok"
    /\ api.cache.account_id # preFile.account_id
    /\ api.cache.session_id # preFile.session_id

\* C5: with an empty username construction fails with ArgUsername, with a
\* non-empty username and an empty password it fails with ArgPassword, and
\* in both cases nothing was sent, read into a manager or written.
C5_EmptyArgs ==
    (IsNew /\ (op.username = "" \/ op.password = "")) =>
        /\ result = Fail(Err(IF op.username = "" THEN "ArgUsername" ELSE "ArgPassword"))
        /\ netLog = <<>>
        /\ writes = <<>>
        /\ ~api.alive
        /\ file = preFile

C5_Witness ==
    /\ IsNew /\ op.username # "" /\ op.password = ""
    /\ result = Fail(Err("ArgPassword"))
    /\ preFile.k = "corrupt"

\* C6: after a get_latest_glucose call that saw session-invalid and renewed
\* the session, the next get_latest_glucose call sends the renewed session
\* id in its readings request, not the expired one; and the call that saw
\* session-invalid sent the readings query once only.
C6_NextCallUsesRenewed ==
    /\ (IsGlucose /\ prevRenewal.renewed) =>
          /\ netLog[1].url = MEASURE_GLUCOSE_URL
          /\ netLog[1].id = prevRenewal.id
          /\ prevRenewal.id # prevRenewal.expired => netLog[1].id # prevRenewal.expired
    /\ SawSessionInvalid => Cardinality(ReadingCalls) = 1

C6_Witness ==
    /\ IsGlucose /\ prevRenewal.renewed
    /\ prevRenewal.id # prevRenewal.expired
    /\ netLog[1].id = prevRenewal.id
    /\ result.kind = "Ok" /\ result.v.some

\* the variants the remote codes other than SessionNotValid stand for
OtherKnownCodes == {"AccountPasswordInvalid", "MaxAuthenticationAttemptsReached",
                    "SessionIdNotFound"}
VariantOfKnownCode(code) ==
    CASE code = "AccountPasswordInvalid" -> "InvalidPassword"
      [] code = "MaxAuthenticationAttemptsReached" -> "MaxAuthenticationAttemptsReached"
      [] code = "SessionIdNotFound" -> "SessionNotFound"
      [] code = "SessionNotValid" -> "SessionInvalid"

\* C7: on every readings response other than the session-invalid error
\* object, get_latest_glucose sends no derivation, writes nothing and leaves
\* username, account id and session id as they were; an error object with
\* another known code is returned as the variant its code stands for.
C7_OtherResponses ==
    (IsGlucose /\ netLog[1].resp # SessionNotValidBody) =>
        /\ Len(netLog) = 1
        /\ netLog[1].url = MEASURE_GLUCOSE_URL
        /\ writes = <<>>
        /\ api = pre
        /\ file = preFile
        /\ result.kind # "Panic"
        /\ \A c \in OtherKnownCodes :
              netLog[1].resp = ObjBody(c, TRUE) => result = Fail(Err(VariantOfKnownCode(c)))

C7_Witness ==
    /\ IsGlucose
    /\ netLog[1].resp = ObjBody("SessionIdNotFound", TRUE)
    /\ result = Fail(Err("SessionNotFound"))
    /\ api.alive /\ api.cache.session_id \in SessionIds

\* a derivation of the last construction failed
DerivationFailed == IsNew /\ Len(netLog) >= 1 /\ netLog[Len(netLog)].resp.k # "string"

\* C8: when a derivation fails during construction (remote error, unknown
\* body or failed exchange), construction returns that error and there is
\* no manager; after a failed account-id derivation no session-id
\* derivation is sent.
C8_DerivationFailure ==
    DerivationFailed =>
        LET r == netLog[Len(netLog)].resp
        IN  /\ ~api.alive
            /\ proc # "running"
            /\ result.kind \in {"Err", "Panic"}
            /\ result.kind = "Err" =>
                  /\ r.k = "failed" => result.e = Transport
                  /\ r.k = "text" => result.e = Unknown(r)
                  /\ \A c \in OtherKnownCodes \cup {"SessionNotValid"} :
                        r = ObjBody(c, TRUE) => result.e = Err(VariantOfKnownCode(c))
            /\ netLog[1].resp.k # "string" => (Len(netLog) = 1 /\ SessionCalls = {})

C8_Witness ==
    /\ DerivationFailed
    /\ Len(netLog) = 2
    /\ result = Fail(Err("InvalidPassword"))

\* the last call was a readings query answered with an array of reading objects
SawReadings ==
    /\ IsGlucose
    /\ netLog[1].resp.k = "array"
    /\ \A i \in 1..Len(netLog[1].resp.items) : netLog[1].resp.items[i].Value >= 0

\* C9: an empty array yields Ok(None); a non-empty array of reading objects
\* yields Ok(Some(first element)) with that element's five fields as sent,
\* whatever follows the first element.
C9_FirstReading ==
    SawReadings =>
        LET items == netLog[1].resp.items
        IN  IF items = <<>> THEN result = Ok(None)
            ELSE /\ result.kind = "Ok"
                 /\ result.v.some
                 /\ result.v.m.wt = items[1].WT
                 /\ result.v.m.st = items[1].ST
                 /\ result.v.m.dt = items[1].DT
                 /\ result.v.m.value = items[1].Value
                 /\ result.v.m.trend = items[1].Trend

C9_Witness ==
    /\ SawReadings
    /\ Len(netLog[1].resp.items) = 2
    /\ netLog[1].resp.items[1] # netLog[1].resp.items[2]
    /\ result.kind = "Ok" /\ result.v.m.value = netLog[1].resp.items[1].Value

\* C10: a derivation reads its response body by strict precedence: a bare
\* JSON string is the identifier; otherwise an error object with one of the
\* four known codes fails with the variant of that code; otherwise it fails
\* with Unknown carrying the whole body.  (Stated of the derivation that
\* ended the last construction, and of the one before it.)
C10_Precedence ==
    (IsNew /\ Len(netLog) >= 1 /\ result.kind # "Panic") =>
        LET r == netLog[Len(netLog)].resp
        IN  /\ Len(netLog) = 2 => netLog[2].id = netLog[1].resp.s
            /\ r.k = "string" => (result.kind = "Ok" /\ api.cache.session_id = r.s)
            /\ r.k \notin {"string", "failed"} =>
                  IF r.k = "object" /\ r.full /\ r.Code \in OtherKnownCodes \cup {"SessionNotValid"}
                  THEN result = Fail(Err(VariantOfKnownCode(r.Code)))
                  ELSE result = Fail(Unknown(r))

\* the four codes the remote service is known to report
KnownCodes == OtherKnownCodes \cup {"SessionNotValid"}
\* the response that decided the last call: the last one it received
LastResponse == netLog[Len(netLog)].resp
\* an error object with all four fields whose Code is none of the known ones
UnrecognizedCodeBody(r) == r.k = "object" /\ r.full /\ r.Code \notin KnownCodes

\* C11: an error object {Code, Message, SubCode, TypeName} whose Code is not
\* a known remote code is reported as a failure of its own, told apart from
\* the Unknown(raw_body) a body matching no schema is reported as.
C11_UnknownCodeDistinct ==
    ((IsNew \/ IsGlucose) /\ Len(netLog) >= 1 /\ result.kind # "Panic"
        /\ UnrecognizedCodeBody(LastResponse)) =>
        /\ result.kind = "Err"
        /\ result.e.tag # "Unknown"

\* C12: a cache file that exists but is corrupt is treated as absent:
\* construction does not abort, derives both identifiers and returns a
\* manager when both derivations succeed.
C12_CorruptCacheRecoverable ==
    (IsNew /\ op.username # "" /\ op.password # "" /\ preFile = Corrupt) =>
        /\ result.kind # "Panic"
        /\ Len(netLog) >= 1
        /\ (Len(netLog) = 2 /\ netLog[2].resp.k = "string") => api.alive

\* C13: a cache write that fails ends no process: a call of new or
\* get_latest_glucose, or a teardown, that handed a record to save still
\* returns and the process keeps running.
C13_WriteFailureNotFatal ==
    writes # <<>> => (result.kind # "Panic" /\ proc # "crashed")

\* C14: whenever a manager exists after new or get_latest_glucose returned,
\* the record in the cache file is the manager's in-memory cache: every
\* change of the identifiers was saved before the call returned.
C14_FileMatchesMemory ==
    (proc = "running" /\ (IsNew \/ IsGlucose)) =>
        /\ api.alive
        /\ file = FileOf(api.cache)
        /\ (IsNew /\ netLog # <<>>) => (writes # <<>> /\ writes[Len(writes)] = api.cache)
        /\ (IsGlucose /\ api.cache # pre.cache) => writes = <<api.cache>>

C14_Witness ==
    /\ proc = "running" /\ IsGlucose
    /\ api.cache.session_id # pre.cache.session_id
    /\ file = FileOf(api.cache)
    /\ file # preFile

\* C15: a call of get_latest_glucose sends the readings query exactly once,
\* first, and at most one session-id derivation after it, whatever the
\* remote service answers.
C15_OneQueryOneRenewal ==
    IsGlucose =>
        /\ Cardinality(ReadingCalls) = 1
        /\ netLog[1].url = MEASURE_GLUCOSE_URL
        /\ Cardinality(SessionCalls) <= 1
        /\ AccountCalls = {}
        /\ Len(netLog) <= 2

C15_Witness ==
    /\ IsGlucose
    /\ Len(netLog) = 2
    /\ netLog[2].url = SESSION_ID_URL
    /\ netLog[2].resp = SessionNotValidBody
    /\ result.kind = "Err"

\* C16: neither new nor get_latest_glucose ever returns MaxRetriesReached,
\* whatever the remote service, the cache file and the network do.
C16_NoMaxRetriesReached ==
    result.kind = "Err" => result.e # Err("MaxRetriesReached")

\* C19: a record in the cache file holds an account id and a session id
\* that successful derivations returned: a construction that failed in a
\* derivation leaves no record with an empty identifier for a later
\* construction to adopt.
C19_FileHoldsDerivedIds ==
    file.k = "json" =>
        /\ file.account_id \in AccountIds
        /\ file.session_id \in SessionIds

\* C17: after a session-invalid result the loop re-queries at once at most
\* one time: between two sleeps (and before the first) at most two readings
\* queries are sent.
C17_RetriesOnce == sinceSleep <= 2

\* C18: format_status gives "We chillin (<value> mg/dL)" for every value in
\* [80,200), "I'm in sugar withdrawls, send help (<value> mg/dL)" for every
\* value in [40,60) and "I'm currently ODing on sugar, send help (<value>
\* mg/dL)" for every value of 300 or more, with the value as given.
C18_StatusRanges ==
    fmt.called =>
        /\ (80 <= fmt.value /\ fmt.value < 200) =>
              fmt.status = [text |-> "We chillin", value |-> fmt.value]
        /\ (40 <= fmt.value /\ fmt.value < 60) =>
              fmt.status = [text |-> "I'm in sugar withdrawls, send help", value |-> fmt.value]
        /\ fmt.value >= 300 =>
              fmt.status = [text |-> "I'm currently ODing on sugar, send help", value |-> fmt.value]

C18_Witness ==
    /\ fmt.called
    /\ fmt.value = 59
    /\ fmt.status.text = "I'm in sugar withdrawls, send help"

\* C20: a loop iteration passes at most one status string to the presence
\* service: the one derived from the value after a reading, "Tell me to
\* change my cgm" after an error other than session-invalid, none after an
\* empty result or a session-invalid error; the account's status changes to
\* that string or not at all.
C20_StatusPerIteration ==
    iter.ran =>
        /\ Len(iter.updates) <= 1
        /\ (result.kind = "Ok" /\ result.v.some) =>
              iter.updates = <<format_status(result.v.m.value)>>
        /\ (result.kind = "Ok" /\ ~result.v.some) => iter.updates = <<>>
        /\ (result.kind = "Err" /\ result.e = Err("SessionInvalid")) => iter.updates = <<>>
        /\ (result.kind = "Err" /\ result.e # Err("SessionInvalid")) =>
              iter.updates = <<[text |-> "Tell me to change my cgm"]>>
        /\ result.kind = "Panic" => iter.updates = <<>>
        /\ presence # iter.before => (iter.updates # <<>> /\ presence = iter.updates[1])

C20_Witness ==
    /\ iter.ran
    /\ result.kind = "Err" /\ result.e = Err("SessionInvalid")
    /\ iter.updates = <<>>
    /\ iter.before.text = "We chillin"
    /\ presence = iter.before

\* the two messages for low glucose
LowMessages == {"I'm in sugar withdrawls, send help",
                "Tell me to eat something, I'm a little low"}

\* C21: the messages follow severity: "I'm currently ODing on sugar, send
\* help" comes out only for values of 300 or more, and every value below 60,
\* the values below 40 included, gets a low-glucose message.
C21_SeverityPartition ==
    fmt.called =>
        /\ fmt.status.text = "I'm currently ODing on sugar, send help" => fmt.value >= 300
        /\ fmt.value < 60 => fmt.status.text \in LowMessages
====
